---- MODULE Spec2Model ----
(***************************************************************************)
(* AgriLifecycle Pro (src/app.py): a Streamlit script.  Every interaction  *)
(* of the farmer (page navigation, a widget change, a map click, a button  *)
(* press) re-executes the whole script top to bottom with the current      *)
(* widget values; the script renders elements and, on page 4, may call the *)
(* external text-generation service.                                       *)
(*                                                                         *)
(* Units.  The script computes with floats; the model keeps them as exact  *)
(* integers: acres and yield_per_acre are in TENTHS (acres = 100 is 10.0   *)
(* acres, yield_per_acre = 175 is 17.5 Q/acre), total_yield is therefore   *)
(* in HUNDREDTHS of a quintal, and money is in rupees.                     *)
(***************************************************************************)
EXTENDS Integers, Sequences, FiniteSets

VARIABLES
    page,           \* sidebar radio (line 69): 1..4
    acres,          \* sidebar number_input (line 79), tenths of an acre
    water_lvl,      \* sidebar select_slider (line 80)
    labor_count,    \* sidebar number_input (line 81)
    clicked,        \* page 1: map_data["last_clicked"] is set (line 99)
    soil_test,      \* page 1 selectbox (line 107)
    land_slope,     \* page 1 slider (line 108)
    selected_seed,  \* page 2 selectbox (line 127)
    seed_quality,   \* page 2 radio (line 128)
    irrigation,     \* page 2 selectbox (line 143)
    fert_type,      \* page 2 radio (line 144)
    user_query,     \* page 4 text_input (line 216)
    SEED_DATA,      \* module-level dict (lines 56-62)
    out,            \* what the last run of the script rendered and did
    inA, inB,       \* SpecCompare: two farm inputs given to the script
    outA, outB,     \* SpecCompare: what the script rendered for each
    pc              \* SpecCompare: "session" | "ready" | "done"

vars == <<page, acres, water_lvl, labor_count, clicked, soil_test, land_slope,
          selected_seed, seed_quality, irrigation, fert_type, user_query,
          SEED_DATA, out, inA, inB, outA, outB, pc>>

sessionVars == <<page, acres, water_lvl, labor_count, clicked, soil_test,
                 land_slope, selected_seed, seed_quality, irrigation,
                 fert_type, user_query, SEED_DATA, out>>

compareVars == <<inA, inB, outA, outB>>

(***************************************************************************)
(* Bounds of the model                                                     *)
(***************************************************************************)
\* acreage values the farmer types are k * 0.5 acres for k in 0..MaxAcresStep
MaxAcresStep == 5
\* slope values the farmer drags to are k * 10 percent for k in 0..MaxSlopeStep
MaxSlopeStep == 2

(***************************************************************************)
(* Program constants                                                       *)
(***************************************************************************)
SeedCatalog ==
    [s \in {"Hybrid Rice", "Organic Wheat", "Premium Cotton", "Golden Maize",
            "Soybean (Elite)"} |->
        CASE s = "Hybrid Rice" ->
               [price |-> 2200, info |-> "High yield, medium water requirement."]
          [] s = "Organic Wheat" ->
               [price |-> 2800, info |-> "Premium market value, eco-friendly."]
          [] s = "Premium Cotton" ->
               [price |-> 6500,
                info |-> "Industrial demand, high pesticide monitoring needed."]
          [] s = "Golden Maize" ->
               [price |-> 1900, info |-> "Animal feed focus, fast growth."]
          [] OTHER ->
               [price |-> 4500, info |-> "High protein, nitrogen-fixing crop."]]

\* list(SEED_DATA.keys()): dict insertion order
SeedKeys == <<"Hybrid Rice", "Organic Wheat", "Premium Cotton", "Golden Maize",
              "Soybean (Elite)">>

Pages == 1..4
AcresMin == 10
AcresDefault == 100
WaterLevels == <<"Dry", "Low", "Full">>
WaterDefault == "Full"
LaborMin == 1
LaborMax == 500
LaborDefault == 15
SoilTests == <<"Verified", "Pending", "Critical">>
SlopeMin == 0
SlopeMax == 45
SlopeDefault == 5
ErosionSlope == 15
SeedQualities == <<"Certified Premium", "Standard", "Damaged/Discolored">>
Irrigations == <<"Drip", "Sprinkler", "Manual">>
FertTypes == <<"100% Organic", "Balanced NPK", "Chemical Intense">>
BaseYield == 150
FullWaterBonus == 25
RevenuePrice == 2000
EsgScore == 65

Range(seq) == {seq[i] : i \in DOMAIN seq}

(***************************************************************************)
(* Widgets: what a widget hands to the script for a value the farmer       *)
(* tries to enter.  A value outside the widget's declared range or option  *)
(* list is not committed by the widget, so the script keeps seeing the     *)
(* previous value.                                                         *)
(***************************************************************************)
\* a land-area input without its min_value
AcresAcceptsAnyNumber(v) == v >= 0

\* st.sidebar.number_input("Total Land Area (Acres)", min_value=1.0, ...)
AcresAccepts(v) == v >= AcresMin

\* st.sidebar.number_input("Labor Count", 1, 500, 15)
LaborAccepts(v) == v >= LaborMin /\ v <= LaborMax

\* st.slider("Land Slope (%)", 0, 45, 5)
SlopeAccepts(v) == v >= SlopeMin /\ v <= SlopeMax

\* selectbox / radio / select_slider: only a listed option can be chosen
OptionAccepts(options, v) == v \in Range(options)

\* values the farmer may try to enter
AcresTried == {5 * k : k \in 0..MaxAcresStep} \cup {AcresDefault}
LaborTried == {LaborMin - 1, LaborMin, LaborDefault, LaborMax, LaborMax + 1}
SlopeTried == {10 * k : k \in 0..MaxSlopeStep} \cup {SlopeDefault, SlopeMax + 5}
Unlisted == "(unlisted)"
Queries == {"", "Seeds look damaged"}

(***************************************************************************)
(* f"{x:.0f}" of the non-negative rational num/den: Python rounds the      *)
(* value half-to-even to an integer.                                       *)
(***************************************************************************)
Format0f(num, den) ==
    LET q == num \div den
        r == num % den
    IN  IF 2 * r > den THEN q + 1
        ELSE IF 2 * r < den THEN q
        ELSE IF q % 2 = 0 THEN q ELSE q + 1

(***************************************************************************)
(* The script.  `in` is the record of everything one run reads: the widget *)
(* values, which button (if any) triggered the run, and whether the        *)
(* external service answers (svc_ok) or its call raises.                   *)
(***************************************************************************)
\* A run's record before any page branch has rendered: `shown` is the set of
\* elements rendered, the numeric fields are the values of the metrics,
\* `calls` counts generate_content calls, `raised` says a call raised and
\* `exception` that the run ended in an uncaught exception.  `ranked` and
\* `recommended` stand for a crop ranking and a recommended crop; no line of
\* the script renders either, so no page sets them.
Blank ==
    [shown |-> {}, plot_size |-> 0, erosion |-> "n/a",
     desc |-> "", price |-> 0,
     yield_per_acre |-> 0, total_yield |-> 0, revenue |-> 0,
     ranked |-> << >>, recommended |-> "",
     score |-> 0, calls |-> 0, pressed |-> "none",
     raised |-> FALSE, exception |-> FALSE, footer |-> FALSE, page |-> 0]

\* the yield logic with a deduction for a dry field
YieldPerAcreDryPenalty(in) ==
    IF in.water_lvl = "Full" THEN BaseYield + FullWaterBonus
    ELSE IF in.water_lvl = "Dry" THEN BaseYield - FullWaterBonus
    ELSE BaseYield

\* lines 153-159: CALCULATE YIELD LOGIC (tenths of a quintal per acre)
YieldPerAcre(in) ==
    IF in.water_lvl = "Full" THEN BaseYield + FullWaterBonus ELSE BaseYield

\* line 159: total_yield = yield_per_acre * acres (hundredths of a quintal)
TotalYield(in) == YieldPerAcre(in) * in.acres

\* line 165: f"{total_yield * 2000:.0f}"
ProjectedRevenue(in) == Format0f(TotalYield(in) * RevenuePrice, 100)

\* a score that grows with the labor count and is not clamped
ScoreWithLabor(in) == EsgScore + in.labor_count

\* lines 202-203: score
Score(in) == EsgScore

\* a page-2 run that writes the flat revenue price into the selected entry
SeedDataRepriced(in) ==
    IF in.page = 2
    THEN [SeedCatalog EXCEPT ![in.selected_seed].price = RevenuePrice]
    ELSE SeedCatalog

\* lines 56-62: each run rebinds SEED_DATA to the literal; no line writes to it
SeedDataAfterRun(in) == SeedCatalog

\* lines 86-114
Page1(in) ==
    IF in.clicked
    THEN [Blank EXCEPT
            !.shown = {"title", "map", "locked", "plot_size", "soil_test",
                       "land_slope", "topography"},
            !.plot_size = in.acres,
            !.erosion = IF in.land_slope > ErosionSlope THEN "high" ELSE "optimal"]
    ELSE [Blank EXCEPT !.shown = {"title", "map", "click_warning"}]

\* lines 119-145
Page2(in) ==
    [Blank EXCEPT
        !.shown = {"title", "selected_seed", "seed_quality", "description",
                   "price", "trend", "irrigation", "fert_type"},
        !.desc = SeedDataAfterRun(in)[in.selected_seed].info,
        !.price = SeedDataAfterRun(in)[in.selected_seed].price]

\* lines 150-189
Page3(in) ==
    [Blank EXCEPT
        !.shown = {"title", "yield_per_acre", "total_yield", "revenue",
                   "history_chart", "scalability_chart"},
        !.yield_per_acre = YieldPerAcre(in),
        !.total_yield = TotalYield(in),
        !.revenue = ProjectedRevenue(in)]

\* a pressed button that retries its call once
CallsWithRetry == 1 + 1

\* number of generate_content calls a pressed button makes (lines 209, 221)
CallsPerPress == 1

\* lines 194-223.  An exception raised by generate_content is not caught:
\* the run stops at the call and nothing after it is rendered.
Page4(in) ==
    LET audit == {"title", "score", "report_button"}
        chat  == {"user_query", "chat_button"}
        base  == [Blank EXCEPT !.score = Score(in), !.pressed = in.pressed]
    IN  CASE in.pressed = "report" /\ ~in.svc_ok ->
               [base EXCEPT !.shown = audit, !.calls = CallsPerPress,
                            !.raised = TRUE, !.exception = TRUE]
          [] in.pressed = "report" /\ in.svc_ok ->
               [base EXCEPT !.shown = audit \cup {"report"} \cup chat,
                            !.calls = CallsPerPress]
          [] in.pressed = "chat" /\ ~in.svc_ok ->
               [base EXCEPT !.shown = audit \cup chat, !.calls = CallsPerPress,
                            !.raised = TRUE, !.exception = TRUE]
          [] in.pressed = "chat" /\ in.svc_ok ->
               [base EXCEPT !.shown = audit \cup chat \cup {"solution"},
                            !.calls = CallsPerPress]
          [] OTHER ->
               [base EXCEPT !.shown = audit \cup chat]

\* line 228, reached unless the run died with an exception
Footer(o) == IF o.exception THEN o ELSE [o EXCEPT !.footer = TRUE]

\* one run of the script, lines 1-228
Run(in) ==
    LET body == CASE in.page = 1 -> Page1(in)
                  [] in.page = 2 -> Page2(in)
                  [] in.page = 3 -> Page3(in)
                  [] OTHER       -> Page4(in)
    IN  [Footer(body) EXCEPT !.page = in.page]

(***************************************************************************)
(* The session: widget values between runs.  Streamlit keeps the value of  *)
(* a widget only while the widget is rendered; a widget that a run does    *)
(* not render starts again from its default the next time it appears.      *)
(***************************************************************************)
\* the values the next run reads, with no button pressed
Cur ==
    [page |-> page, acres |-> acres, water_lvl |-> water_lvl,
     labor_count |-> labor_count, clicked |-> clicked, soil_test |-> soil_test,
     land_slope |-> land_slope, selected_seed |-> selected_seed,
     seed_quality |-> seed_quality, irrigation |-> irrigation,
     fert_type |-> fert_type, user_query |-> user_query,
     pressed |-> "none", svc_ok |-> TRUE]

\* defaults: first option of a selectbox / radio, value= of the others
Defaults ==
    [page |-> 1, acres |-> AcresDefault, water_lvl |-> WaterDefault,
     labor_count |-> LaborDefault, clicked |-> FALSE, soil_test |-> SoilTests[1],
     land_slope |-> SlopeDefault, selected_seed |-> SeedKeys[1],
     seed_quality |-> SeedQualities[1], irrigation |-> Irrigations[1],
     fert_type |-> FertTypes[1], user_query |-> "",
     pressed |-> "none", svc_ok |-> TRUE]

\* the session after a run that read `in`
Rerun(in) ==
    /\ page' = in.page
    /\ acres' = in.acres
    /\ water_lvl' = in.water_lvl
    /\ labor_count' = in.labor_count
    /\ clicked' = in.clicked
    /\ soil_test' = in.soil_test
    /\ land_slope' = in.land_slope
    /\ selected_seed' = in.selected_seed
    /\ seed_quality' = in.seed_quality
    /\ irrigation' = in.irrigation
    /\ fert_type' = in.fert_type
    /\ user_query' = IF "user_query" \in Run(in).shown THEN in.user_query ELSE ""
    /\ SEED_DATA' = SeedDataAfterRun(in)
    /\ out' = Run(in)
    /\ UNCHANGED <<compareVars, pc>>

Init ==
    /\ page = Defaults.page
    /\ acres = Defaults.acres
    /\ water_lvl = Defaults.water_lvl
    /\ labor_count = Defaults.labor_count
    /\ clicked = Defaults.clicked
    /\ soil_test = Defaults.soil_test
    /\ land_slope = Defaults.land_slope
    /\ selected_seed = Defaults.selected_seed
    /\ seed_quality = Defaults.seed_quality
    /\ irrigation = Defaults.irrigation
    /\ fert_type = Defaults.fert_type
    /\ user_query = Defaults.user_query
    /\ SEED_DATA = SeedDataAfterRun(Defaults)
    /\ out = Run(Defaults)
    /\ inA = Defaults /\ inB = Defaults
    /\ outA = Blank /\ outB = Blank
    /\ pc = "session"

\* line 69: the page radio; the widgets of the page left are dropped
Navigate(p) ==
    /\ pc = "session"
    /\ p # page
    /\ Rerun([Defaults EXCEPT !.page = p, !.acres = acres,
                              !.water_lvl = water_lvl,
                              !.labor_count = labor_count])

\* line 79
SetAcres(v) ==
    /\ pc = "session"
    /\ IF AcresAccepts(v) THEN Rerun([Cur EXCEPT !.acres = v])
       ELSE UNCHANGED vars

\* line 80
SetWaterLevel(v) ==
    /\ pc = "session"
    /\ IF OptionAccepts(WaterLevels, v) THEN Rerun([Cur EXCEPT !.water_lvl = v])
       ELSE UNCHANGED vars

\* line 81
SetLaborCount(v) ==
    /\ pc = "session"
    /\ IF LaborAccepts(v) THEN Rerun([Cur EXCEPT !.labor_count = v])
       ELSE UNCHANGED vars

\* lines 98-99: a click on the map
MapClick ==
    /\ pc = "session"
    /\ page = 1
    /\ Rerun([Cur EXCEPT !.clicked = TRUE])

\* line 107 (rendered only once the map was clicked, line 104)
SetSoilTest(v) ==
    /\ pc = "session"
    /\ page = 1 /\ clicked
    /\ IF OptionAccepts(SoilTests, v) THEN Rerun([Cur EXCEPT !.soil_test = v])
       ELSE UNCHANGED vars

\* line 108
SetLandSlope(v) ==
    /\ pc = "session"
    /\ page = 1 /\ clicked
    /\ IF SlopeAccepts(v) THEN Rerun([Cur EXCEPT !.land_slope = v])
       ELSE UNCHANGED vars

\* line 127
SelectSeed(v) ==
    /\ pc = "session"
    /\ page = 2
    /\ IF OptionAccepts(SeedKeys, v) THEN Rerun([Cur EXCEPT !.selected_seed = v])
       ELSE UNCHANGED vars

\* line 128
SetSeedQuality(v) ==
    /\ pc = "session"
    /\ page = 2
    /\ IF OptionAccepts(SeedQualities, v)
       THEN Rerun([Cur EXCEPT !.seed_quality = v])
       ELSE UNCHANGED vars

\* line 143
SetIrrigation(v) ==
    /\ pc = "session"
    /\ page = 2
    /\ IF OptionAccepts(Irrigations, v) THEN Rerun([Cur EXCEPT !.irrigation = v])
       ELSE UNCHANGED vars

\* line 144
SetFertType(v) ==
    /\ pc = "session"
    /\ page = 2
    /\ IF OptionAccepts(FertTypes, v) THEN Rerun([Cur EXCEPT !.fert_type = v])
       ELSE UNCHANGED vars

\* line 216
TypeQuery(q) ==
    /\ pc = "session"
    /\ page = 4
    /\ Rerun([Cur EXCEPT !.user_query = q])

\* lines 206-210: "Generate ESG Audit Report"; ok: the service answers
PressReport(ok) ==
    /\ pc = "session"
    /\ page = 4
    /\ Rerun([Cur EXCEPT !.pressed = "report", !.svc_ok = ok])

\* lines 218-222: "Consult AI Expert"
PressChat(ok) ==
    /\ pc = "session"
    /\ page = 4
    /\ Rerun([Cur EXCEPT !.pressed = "chat", !.svc_ok = ok])

Next ==
    \/ \E p \in Pages : Navigate(p)
    \/ \E v \in AcresTried : SetAcres(v)
    \/ \E v \in Range(WaterLevels) \cup {Unlisted} : SetWaterLevel(v)
    \/ \E v \in LaborTried : SetLaborCount(v)
    \/ MapClick
    \/ \E v \in Range(SoilTests) \cup {Unlisted} : SetSoilTest(v)
    \/ \E v \in SlopeTried : SetLandSlope(v)
    \/ \E v \in Range(SeedKeys) \cup {Unlisted} : SelectSeed(v)
    \/ \E v \in Range(SeedQualities) \cup {Unlisted} : SetSeedQuality(v)
    \/ \E v \in Range(Irrigations) \cup {Unlisted} : SetIrrigation(v)
    \/ \E v \in Range(FertTypes) \cup {Unlisted} : SetFertType(v)
    \/ \E q \in Queries : TypeQuery(q)
    \/ \E ok \in BOOLEAN : PressReport(ok)
    \/ \E ok \in BOOLEAN : PressChat(ok)

Spec == Init /\ [][Next]_vars

(***************************************************************************)
(* Two runs side by side: the script is run once on each of two farm       *)
(* inputs that differ in exactly one field, so that the effect of that     *)
(* field on what the script shows can be read off.                         *)
(***************************************************************************)
\* farm inputs for the pages that compute (3 and 4), no button pressed
Profiles ==
    {[Defaults EXCEPT !.page = p, !.acres = a, !.water_lvl = w,
                      !.soil_test = st, !.selected_seed = s,
                      !.seed_quality = q, !.irrigation = i, !.fert_type = f] :
        p \in {3, 4},
        a \in {v \in AcresTried : AcresAccepts(v)},
        w \in Range(WaterLevels),
        st \in {SoilTests[1], SoilTests[2]},
        s \in Range(SeedKeys),
        q \in {SeedQualities[2], SeedQualities[3]},
        i \in {Irrigations[1], Irrigations[3]},
        f \in {FertTypes[1], FertTypes[3]}}

\* the inputs that differ from a in exactly one of the compared fields
Variants(a) ==
    {b \in Profiles :
        /\ b.page = a.page /\ b.acres = a.acres /\ b.selected_seed = a.selected_seed
        /\ Cardinality({k \in {"water_lvl", "soil_test", "seed_quality",
                               "irrigation", "fert_type"} : a[k] # b[k]}) = 1}

InitCompare ==
    /\ page = Defaults.page
    /\ acres = Defaults.acres
    /\ water_lvl = Defaults.water_lvl
    /\ labor_count = Defaults.labor_count
    /\ clicked = Defaults.clicked
    /\ soil_test = Defaults.soil_test
    /\ land_slope = Defaults.land_slope
    /\ selected_seed = Defaults.selected_seed
    /\ seed_quality = Defaults.seed_quality
    /\ irrigation = Defaults.irrigation
    /\ fert_type = Defaults.fert_type
    /\ user_query = Defaults.user_query
    /\ SEED_DATA = SeedDataAfterRun(Defaults)
    /\ out = Run(Defaults)
    /\ inA \in Profiles
    /\ inB \in Variants(inA)
    /\ outA = Blank /\ outB = Blank
    /\ pc = "ready"

RunBoth ==
    /\ pc = "ready"
    /\ outA' = Run(inA)
    /\ outB' = Run(inB)
    /\ pc' = "done"
    /\ UNCHANGED <<sessionVars, inA, inB>>

NextCompare == RunBoth

SpecCompare == InitCompare /\ [][NextCompare]_vars

(***************************************************************************)
(* Properties                                                              *)
(***************************************************************************)
\* value of an acreage (tenths) times a yield per acre (tenths) times a price
\* per quintal, in whole rupees as f"{...:.0f}" prints it
Rupees(price, yield, area) == Format0f(price * yield * area, 100)

\* C1: two farm inputs that differ only in the fertilizer approach
\* ("100% Organic" against "Chemical Intense") or only in the irrigation
\* system ("Drip" against "Manual") get sustainability scores that differ by
\* the bonus or penalty of that practice: the organic and the drip farm score
\* strictly higher.
C1_ScoreFollowsPractices ==
    (pc = "done" /\ inA.page = 4) =>
        /\ (inA.fert_type = "100% Organic" /\ inB.fert_type = "Chemical Intense")
              => outA.score > outB.score
        /\ (inA.irrigation = "Drip" /\ inB.irrigation = "Manual")
              => outA.score > outB.score

C3_RevenueUsesCatalogPrice ==
    (pc = "done" /\ inA.page = 3) =>
        outA.revenue = Rupees(SEED_DATA[inA.selected_seed].price,
                              outA.yield_per_acre, inA.acres)

\* C4: toggling exactly one yield adjustment input changes the predicted
\* yield per acre by a non-zero delta: a verified soil test and drip
\* irrigation raise it, a damaged seed lowers it.
C4_YieldAdjustments ==
    (pc = "done" /\ inA.page = 3) =>
        /\ (inA.soil_test = "Verified" /\ inB.soil_test = "Pending")
              => outA.yield_per_acre > outB.yield_per_acre
        /\ (inA.irrigation = "Drip" /\ inB.irrigation = "Manual")
              => outA.yield_per_acre > outB.yield_per_acre
        /\ (inA.seed_quality = "Damaged/Discolored" /\ inB.seed_quality = "Standard")
              => outA.yield_per_acre < outB.yield_per_acre

\* C5: when a call of the text-generation service raises, the run shows a
\* static fallback text, does not end in an error and still renders the
\* footer.
C5_FallbackOnServiceFailure ==
    out.raised => /\ "fallback" \in out.shown
                  /\ ~out.exception
                  /\ out.footer

\* C6: in every reachable state the catalog holds the same five entries with
\* the price and info it was loaded with.
C6_CatalogImmutable ==
    SEED_DATA = SeedCatalog

C6_Witness ==
    /\ page = 2 /\ selected_seed = "Premium Cotton" /\ fert_type = "Chemical Intense"
    /\ out.price = 6500

\* C7: every farm input lies in its declared domain: acres >= 1.0, the water
\* level is Dry, Low or Full, the labor count is in 1..500, the selected seed
\* is a key of the catalog, and irrigation, fertilizer approach, seed
\* condition and soil-test status are each one of their listed options.
C7_InputsInDomain ==
    /\ acres >= 10
    /\ water_lvl \in {"Dry", "Low", "Full"}
    /\ labor_count \in 1..500
    /\ selected_seed \in DOMAIN SEED_DATA
    /\ irrigation \in {"Drip", "Sprinkler", "Manual"}
    /\ fert_type \in {"100% Organic", "Balanced NPK", "Chemical Intense"}
    /\ seed_quality \in {"Certified Premium", "Standard", "Damaged/Discolored"}
    /\ soil_test \in {"Verified", "Pending", "Critical"}

C7_Witness ==
    /\ acres = AcresMin /\ labor_count = LaborMax /\ water_lvl = "Low"
    /\ page = 2 /\ selected_seed = "Soybean (Elite)" /\ irrigation = "Manual"

\* C8: the program produces a ranked sequence of the catalog's crops, each
\* with its suitability and net profit, ordered by descending suitability
\* and then by descending net profit, and the recommended crop is its head.
C8_RankedCropsShown ==
    out.page = 2 =>
        /\ Len(out.ranked) = Cardinality(DOMAIN SEED_DATA)
        /\ {out.ranked[i].name : i \in DOMAIN out.ranked} = DOMAIN SEED_DATA
        /\ \A i, j \in DOMAIN out.ranked :
              i < j => \/ out.ranked[i].suitability > out.ranked[j].suitability
                       \/ /\ out.ranked[i].suitability = out.ranked[j].suitability
                          /\ out.ranked[i].netProfit >= out.ranked[j].netProfit
        /\ out.recommended = out.ranked[1].name

\* C9: a run calls the text-generation service only on page 4 and only when
\* one of the two buttons triggered the run, and then exactly once; every
\* other run makes no call.
C9_ServiceCalledOnlyOnPress ==
    /\ out.calls > 0 => (out.page = 4 /\ out.pressed \in {"report", "chat"})
    /\ out.calls = (IF out.pressed \in {"report", "chat"} THEN 1 ELSE 0)

C9_Witness ==
    /\ out.page = 4 /\ out.pressed = "chat" /\ out.raised /\ out.calls = 1

====
